---- MODULE Spec2Model ----
(***************************************************************************)
(* Model of src/controllers/authentication.js: the Express handlers for    *)
(* register, login, getMe, logout, forgotPassword, resetPassword,          *)
(* updateDetails and updatePassword, over a store of User documents.       *)
(*                                                                         *)
(* A handler is an async function.  It runs without interruption from one  *)
(* `await` to the next, so a handler with several awaits that touch the    *)
(* store is one action per await: the action is the completion of the      *)
(* awaited call followed by the synchronous code up to the next await.     *)
(* Handlers whose only store access is one atomic call (register, login,   *)
(* updateDetails) and handlers without store access (getMe, logout) are    *)
(* one action.  Up to two requests are in flight at a time:                *)
(* forgotPassword and resetPassword requests overlap with one another in   *)
(* every order; the one-action handlers and updatePassword start when no   *)
(* request is in flight.                                                   *)
(*                                                                         *)
(* Collaborators that are not in src/ are modelled by what the controller  *)
(* relies on: User (models/User.js), asyncHandler, ErrorResponse and       *)
(* sendEmail.  A document's save() writes the paths modified on that       *)
(* document and nothing else.  The name and role fields and the cookie     *)
(* options are carried through by the handlers without being read, and     *)
(* are left out.                                                           *)
(***************************************************************************)
EXTENDS Integers, Sequences, FiniteSets, TLC

\* ---------------------------------------------------------------- bounds
\* the clock runs from 0 to MaxTime
MaxTime == 1
\* reset tokens are random 20-byte strings: each one generated is new.
\* Token k is the k-th one generated; at most MaxTokens are generated.
MaxTokens == 2
\* validity window of a reset token, in clock ticks (ten minutes in User.js)
ResetWindow == 1

UserIds == {"u1", "u2"}
Emails == {"a@x.com", "b@x.com"}
Passwords == {"pw123", "pw456"}
Slots == {1, 2}
Tokens == 1..MaxTokens

\* the value of an unset field of a document
Undefined == <<>>
NoUser == "none"
NoPassword == ""
NoToken == 0

VARIABLES
    db,        \* the users collection: UserIds -> document
    now,       \* Date.now()
    slots,     \* the requests in flight, with the locals of each handler
    nextToken, \* the next reset token crypto.randomBytes will produce
    outbox,    \* reset tokens whose email sendEmail delivered
    consumed,  \* reset tokens a successful resetPassword was called with
    pwSet,     \* per user, the plaintext password most recently set
    last       \* what the most recently completed handler signalled

vars == <<db, now, slots, nextToken, outbox, consumed, pwSet, last>>

\* ------------------------------------------------ collaborators (not in src/)
\* crypto.createHash('sha256').update(t).digest('hex')
Sha256(t) == <<"sha256", t>>

\* the pre-save hook of User: bcrypt.hash(password)
HashPassword(p) == <<"bcrypt", p>>

\* user.matchPassword(entered): bcrypt.compare(entered, this.password)
matchPassword(entered, stored) == HashPassword(entered) = stored

\* new ErrorResponse(message, statusCode); statusCode 0 is "not given"
ErrorResponse(message, statusCode) ==
    [name |-> "ErrorResponse", message |-> message, statusCode |-> statusCode]

\* an error thrown inside a handler: asyncHandler passes it to next
Thrown(name) == [name |-> name, message |-> name, statusCode |-> 0]

NoDocument ==
    [exists |-> FALSE, email |-> "", password |-> Undefined,
     passwordResetToken |-> Undefined, passwordResetExpire |-> Undefined]

\* a request slot: where the handler is, and its locals
IdleSlot ==
    [pc |-> "idle", uid |-> NoUser, tok |-> NoToken, exp |-> 0,
     pw |-> NoPassword, case |-> {}]

\* (a lookup that falls back to any user when the email matches none)
FindByEmailOrAny(e) ==
    IF \E u \in UserIds : db[u].exists /\ db[u].email = e
    THEN {u \in UserIds : db[u].exists /\ db[u].email = e}
    ELSE {u \in UserIds : db[u].exists}

\* User.findOne({ email })
FindByEmail(e) == {u \in UserIds : db[u].exists /\ db[u].email = e}

\* (a lookup without the expiry condition)
FindByResetTokenAnyExpiry(h) ==
    {u \in UserIds : db[u].exists /\ db[u].passwordResetToken = h}

\* User.findOne({ passwordResetToken, passwordResetExpire: { $gt: Date.now() } })
FindByResetToken(h) ==
    {u \in UserIds : /\ db[u].exists
                     /\ db[u].passwordResetToken = h
                     /\ db[u].passwordResetExpire # Undefined
                     /\ db[u].passwordResetExpire[1] > now}

\* ------------------------------------------------------------- responses
\* what a completed handler signalled: `sent` success responses (with
\* `status`, and the user id in the session token if one was issued) and
\* the errors passed to next, in order.  `case` records the case the
\* request was in, `dbChanged` and `mailed` whether the handler's last step
\* wrote the store or delivered an email.
Outcome(op, case, sent, status, tokenUid, errs) ==
    [op |-> op, case |-> case, sent |-> sent, status |-> status,
     tokenUid |-> tokenUid, errs |-> errs,
     dbChanged |-> (db' # db), mailed |-> (outbox' # outbox),
     uid |-> NoUser, tok |-> NoToken, cleared |-> Undefined,
     tokAfter |-> Undefined, expAfter |-> Undefined]

NoOutcome ==
    [op |-> "none", case |-> {}, sent |-> 0, status |-> 0,
     tokenUid |-> NoUser, errs |-> <<>>,
     dbChanged |-> FALSE, mailed |-> FALSE,
     uid |-> NoUser, tok |-> NoToken, cleared |-> Undefined,
     tokAfter |-> Undefined, expAfter |-> Undefined]

\* res.status(200).json(...) of a handler that issues no session token
Success(op, case) == Outcome(op, case, 1, 200, NoUser, <<>>)

\* next(err), once or more
Failure(op, case, errs) == Outcome(op, case, 0, 0, NoUser, errs)

\* sendTokenResponse(user, statusCode, res): the JWT embeds user._id
sendTokenResponse(op, case, user, statusCode) ==
    Outcome(op, case, 1, statusCode, user, <<>>)

\* no updatePassword request is in flight
NoUpdateInFlight == \A r \in Slots : slots[r].pc # "up_save"

\* no request is in flight
Quiet == \A r \in Slots : slots[r].pc = "idle"

\* the first idle slot takes a new request
FreeSlot(s) ==
    /\ slots[s].pc = "idle"
    /\ \A r \in Slots : r < s => slots[r].pc # "idle"

Init ==
    /\ db = [u \in UserIds |-> NoDocument]
    /\ now = 0
    /\ slots = [s \in Slots |-> IdleSlot]
    /\ nextToken = 1
    /\ outbox = {}
    /\ consumed = {}
    /\ pwSet = [u \in UserIds |-> NoPassword]
    /\ last = NoOutcome

\* time passes
Tick ==
    /\ now < MaxTime
    /\ now' = now + 1
    /\ UNCHANGED <<db, slots, nextToken, outbox, consumed, pwSet, last>>

\* ------------------------------------------------- the case a request is in
\* (read off the store and the passwords set so far, not off the handler)
RegisteredEmail(e) == \E u \in UserIds : db[u].exists /\ db[u].email = e

OwnerOf(e) == IF RegisteredEmail(e)
              THEN CHOOSE u \in UserIds : db[u].exists /\ db[u].email = e
              ELSE NoUser

LoginCase(e, p) ==
    IF e = "" \/ p = "" THEN {"missing"}
    ELSE IF ~RegisteredEmail(e) THEN {"nouser"}
    ELSE IF pwSet[OwnerOf(e)] = p THEN {"correct"}
    ELSE {"badpw"}

ResetCase(t) ==
    {c \in {"reused"} : t \in consumed}
    \cup {c \in {"expired"} :
            \E u \in UserIds : /\ db[u].exists
                               /\ db[u].passwordResetToken = Sha256(t)
                               /\ db[u].passwordResetExpire # Undefined
                               /\ db[u].passwordResetExpire[1] <= now}
    \cup {c \in {"valid"} :
            \E u \in UserIds : /\ db[u].exists
                               /\ db[u].passwordResetToken = Sha256(t)
                               /\ db[u].passwordResetExpire # Undefined
                               /\ db[u].passwordResetExpire[1] > now}

UpdatePasswordCase(u, cur) ==
    IF pwSet[u] = cur THEN {"rightpw"} ELSE {"wrongpw"}

\* ---------------------------------------------------------------- register
register(e, p) ==
    /\ Quiet
    /\ UNCHANGED <<now, slots, nextToken, outbox, consumed>>
    /\ \/ /\ FindByEmail(e) # {}
          \* the unique index on email rejects the insert; asyncHandler
          \* passes the error to next
          /\ UNCHANGED <<db, pwSet>>
          /\ last' = Failure("register", {"duplicate"}, <<Thrown("MongoError")>>)
       \/ /\ FindByEmail(e) = {}
          /\ \E u \in UserIds :
               /\ ~db[u].exists
               /\ db' = [db EXCEPT ![u] =
                            [exists |-> TRUE, email |-> e,
                             password |-> HashPassword(p),
                             passwordResetToken |-> Undefined,
                             passwordResetExpire |-> Undefined]]
               /\ pwSet' = [pwSet EXCEPT ![u] = p]
               /\ last' = sendTokenResponse("register", {"created"}, u, 200)

\* ------------------------------------------------------------------- login
MissingCredentials == ErrorResponse("Please provide both email and password", 0)

\* (a not-found answer that names the missing user)
LoginNoUserDistinct == ErrorResponse("No user exists with that email", 404)

LoginNoUser == ErrorResponse("Invalid credentials", 401)

LoginNoMatch == ErrorResponse("Invalid credentials", 401)

\* (a comparison of the entered password with the stored hash as it is)
LoginIsMatchPlain(user, password) == <<"bcrypt", db[user].password>> = password

\* const isMatch = await user.matchPassword(password)
LoginIsMatch(user, password) == matchPassword(password, db[user].password)

login(e, p) ==
    /\ Quiet
    /\ UNCHANGED <<db, now, slots, nextToken, outbox, consumed, pwSet>>
    /\ IF e = "" \/ p = ""
       THEN last' = Failure("login", LoginCase(e, p), <<MissingCredentials>>)
       ELSE IF FindByEmail(e) = {}
       THEN last' = Failure("login", LoginCase(e, p), <<LoginNoUser>>)
       ELSE \E user \in FindByEmail(e) :
              IF ~LoginIsMatch(user, p)
              THEN last' = Failure("login", LoginCase(e, p), <<LoginNoMatch>>)
              ELSE last' = [sendTokenResponse("login", LoginCase(e, p), user, 200)
                            EXCEPT !.uid = OwnerOf(e)]

\* ------------------------------------------------------------ getMe, logout
getMe(u) ==
    /\ Quiet
    /\ db[u].exists
    /\ UNCHANGED <<db, now, slots, nextToken, outbox, consumed, pwSet>>
    /\ last' = Success("getMe", {"me"})

logout ==
    /\ Quiet
    /\ UNCHANGED <<db, now, slots, nextToken, outbox, consumed, pwSet>>
    /\ last' = Success("logout", {"logout"})

\* ----------------------------------------------------------- forgotPassword
ForgotNoUser == ErrorResponse("No user exists with that email", 404)

ForgotNotSent == ErrorResponse("Email could not be sent", 500)

\* user.getResetPasswordToken(): a new random token; its digest and
\* Date.now() + the validity window are set on the document
getResetPasswordToken(user) ==
    [pc |-> "fp_save", uid |-> user, tok |-> nextToken,
     exp |-> now + ResetWindow, pw |-> NoPassword, case |-> {}]

\* lines 70-79: the lookup, up to the call of save
forgotPassword(s, e) ==
    /\ FreeSlot(s)
    /\ NoUpdateInFlight
    /\ UNCHANGED <<db, now, outbox, consumed, pwSet>>
    /\ IF FindByEmail(e) = {}
       THEN /\ last' = Failure("forgotPassword",
                               {c \in {"unknown"} : ~RegisteredEmail(e)},
                               <<ForgotNoUser>>)
            /\ UNCHANGED <<slots, nextToken>>
       ELSE /\ nextToken <= MaxTokens
            /\ \E user \in FindByEmail(e) :
                 slots' = [slots EXCEPT ![s] =
                              [getResetPasswordToken(user) EXCEPT
                                 !.case = {c \in {"unknown"} : ~RegisteredEmail(e)}]]
            /\ nextToken' = nextToken + 1
            /\ UNCHANGED last

\* line 79 completes: the digest and the expiry are in the store; lines
\* 81-98 build the message and call sendEmail
forgotPasswordSaved(s) ==
    /\ slots[s].pc = "fp_save"
    /\ db' = [db EXCEPT ![slots[s].uid] =
                 [@ EXCEPT !.passwordResetToken = Sha256(slots[s].tok),
                           !.passwordResetExpire = <<slots[s].exp>>]]
    /\ slots' = [slots EXCEPT ![s].pc = "fp_send", ![s].exp = 0]
    /\ UNCHANGED <<now, nextToken, outbox, consumed, pwSet, last>>

\* (a catch block that clears the token and leaves the expiry)
ForgotCleanupTokenOnly(doc) == [doc EXCEPT !.passwordResetToken = Undefined]

\* (a catch block that clears nothing)
ForgotCleanupNothing(doc) == doc

\* lines 101-102: what the catch block sets on the document
ForgotCleanup(doc) ==
    [doc EXCEPT !.passwordResetToken = Undefined,
                !.passwordResetExpire = Undefined]

\* sendEmail settles: lines 109-112 when it resolves, lines 100-104 (up to
\* the call of save) when it rejects
forgotPasswordSent(s) ==
    /\ slots[s].pc = "fp_send"
    /\ UNCHANGED <<db, now, nextToken, consumed, pwSet>>
    /\ \/ /\ outbox' = outbox \cup {slots[s].tok}
          /\ last' = Success("forgotPassword", slots[s].case \cup {"sent"})
          /\ slots' = [slots EXCEPT ![s] = IdleSlot]
       \/ /\ slots' = [slots EXCEPT ![s].pc = "fp_cleanup"]
          /\ UNCHANGED <<outbox, last>>

\* line 104 completes: the cleared fields are in the store; line 106
forgotPasswordCleaned(s) ==
    /\ slots[s].pc = "fp_cleanup"
    /\ db' = [db EXCEPT ![slots[s].uid] = ForgotCleanup(@)]
    /\ UNCHANGED <<now, nextToken, outbox, consumed, pwSet>>
    /\ last' = [Failure("forgotPassword", slots[s].case \cup {"sendfail"},
                         <<ForgotNotSent>>)
                 EXCEPT !.uid = slots[s].uid,
                        !.tok = slots[s].tok,
                        !.cleared = db[slots[s].uid].passwordResetToken,
                        !.tokAfter = db'[slots[s].uid].passwordResetToken,
                        !.expAfter = db'[slots[s].uid].passwordResetExpire]
    /\ slots' = [slots EXCEPT ![s] = IdleSlot]

\* ------------------------------------------------------------ resetPassword
InvalidToken == ErrorResponse("Invalid token", 400)

\* lines 131-133 and what follows them when no user was found: next is
\* called and the handler goes on to line 136, where user is null; the
\* TypeError rejects the handler's promise and asyncHandler calls next again
ResetNotFound == <<InvalidToken, Thrown("TypeError")>>

\* (a reset that sets the password and leaves the token fields)
ResetPasswordDocKeepsToken(doc, password) ==
    [doc EXCEPT !.password = HashPassword(password)]

\* lines 136-138: what the handler sets on the document
ResetPasswordDoc(doc, password) ==
    [doc EXCEPT !.password = HashPassword(password),
                !.passwordResetToken = Undefined,
                !.passwordResetExpire = Undefined]

\* lines 120-139: the digest and the lookup, up to the call of save
resetPassword(s, t, p) ==
    /\ FreeSlot(s)
    /\ NoUpdateInFlight
    /\ UNCHANGED <<db, now, nextToken, outbox, consumed, pwSet>>
    /\ IF FindByResetToken(Sha256(t)) = {}
       THEN /\ last' = Failure("resetPassword", ResetCase(t), ResetNotFound)
            /\ UNCHANGED slots
       ELSE /\ \E user \in FindByResetToken(Sha256(t)) :
                 slots' = [slots EXCEPT ![s] =
                              [pc |-> "rp_save", uid |-> user, tok |-> t,
                               exp |-> 0, pw |-> p, case |-> ResetCase(t)]]
            /\ UNCHANGED last

\* line 139 completes: password, token and expiry are in the store; line 141
resetPasswordSaved(s) ==
    /\ slots[s].pc = "rp_save"
    /\ db' = [db EXCEPT ![slots[s].uid] = ResetPasswordDoc(@, slots[s].pw)]
    /\ pwSet' = [pwSet EXCEPT ![slots[s].uid] = slots[s].pw]
    /\ consumed' = consumed \cup {slots[s].tok}
    /\ UNCHANGED <<now, nextToken, outbox>>
    /\ last' = sendTokenResponse("resetPassword", slots[s].case, slots[s].uid, 200)
    /\ slots' = [slots EXCEPT ![s] = IdleSlot]

\* ------------------------------------------------------------ updateDetails
\* findByIdAndUpdate is one atomic update; req.user is the signed-in user
updateDetails(u, e) ==
    /\ Quiet
    /\ db[u].exists
    /\ UNCHANGED <<now, slots, nextToken, outbox, consumed, pwSet>>
    /\ IF \E o \in FindByEmail(e) : o # u
       THEN /\ UNCHANGED db
            /\ last' = Failure("updateDetails", {"duplicate"},
                               <<Thrown("MongoError")>>)
       ELSE /\ db' = [db EXCEPT ![u].email = e]
            /\ last' = Success("updateDetails", {"updated"})

\* ----------------------------------------------------------- updatePassword
PasswordIncorrect == ErrorResponse("Password is incorrect", 404)

\* (a handler without the check of the current password)
UpdateIsMatchAlways(user, currentPassword) == TRUE

\* line 168: await user.matchPassword(req.body.currentPassword)
UpdateIsMatch(user, currentPassword) ==
    matchPassword(currentPassword, db[user].password)

\* lines 165-174: the lookup and the check, up to the call of save
updatePassword(s, u, cur, new) ==
    /\ FreeSlot(s)
    /\ Quiet
    /\ db[u].exists
    /\ UNCHANGED <<db, now, nextToken, outbox, consumed, pwSet>>
    /\ IF ~UpdateIsMatch(u, cur)
       THEN /\ last' = Failure("updatePassword", UpdatePasswordCase(u, cur),
                               <<PasswordIncorrect>>)
            /\ UNCHANGED slots
       ELSE /\ slots' = [slots EXCEPT ![s] =
                            [pc |-> "up_save", uid |-> u, tok |-> NoToken,
                             exp |-> 0, pw |-> new,
                             case |-> UpdatePasswordCase(u, cur)]]
            /\ UNCHANGED last

\* line 174 completes: the new password is in the store; line 177
updatePasswordSaved(s) ==
    /\ slots[s].pc = "up_save"
    /\ db' = [db EXCEPT ![slots[s].uid].password = HashPassword(slots[s].pw)]
    /\ pwSet' = [pwSet EXCEPT ![slots[s].uid] = slots[s].pw]
    /\ UNCHANGED <<now, nextToken, outbox, consumed>>
    /\ last' = sendTokenResponse("updatePassword", slots[s].case, slots[s].uid,
                                 200)
    /\ slots' = [slots EXCEPT ![s] = IdleSlot]

\* ------------------------------------------------------------ specification
Register == \E e \in Emails, p \in Passwords : register(e, p)
Login == \E e \in Emails \cup {""}, p \in Passwords \cup {""} : login(e, p)
GetMe == \E u \in UserIds : getMe(u)
Logout == logout
ForgotPassword == \E s \in Slots, e \in Emails : forgotPassword(s, e)
ForgotPasswordSaved == \E s \in Slots : forgotPasswordSaved(s)
ForgotPasswordSent == \E s \in Slots : forgotPasswordSent(s)
ForgotPasswordCleaned == \E s \in Slots : forgotPasswordCleaned(s)
ResetPassword == \E s \in Slots, t \in Tokens, p \in Passwords : resetPassword(s, t, p)
ResetPasswordSaved == \E s \in Slots : resetPasswordSaved(s)
UpdateDetails == \E u \in UserIds, e \in Emails : updateDetails(u, e)
UpdatePassword ==
    \E s \in Slots, u \in UserIds, cur \in Passwords, new \in Passwords :
        updatePassword(s, u, cur, new)
UpdatePasswordSaved == \E s \in Slots : updatePasswordSaved(s)

Next ==
    \/ Register
    \/ Login
    \/ GetMe
    \/ Logout
    \/ ForgotPassword
    \/ ForgotPasswordSaved
    \/ ForgotPasswordSent
    \/ ForgotPasswordCleaned
    \/ ResetPassword
    \/ ResetPasswordSaved
    \/ UpdateDetails
    \/ UpdatePassword
    \/ UpdatePasswordSaved
    \/ Tick

Spec == Init /\ [][Next]_vars

\* ------------------------------------------------------------- properties
\* what the caller of a handler can see of its outcome
Observable(o) ==
    [sent |-> o.sent, status |-> o.status, tokenUid |-> o.tokenUid,
     errs |-> o.errs]

Stored(t) == \E u \in UserIds : db[u].passwordResetToken = Sha256(t)

\* the tokens of forgotPassword requests that have completed without
\* delivering their email
Undelivered ==
    {t \in Tokens : /\ t < nextToken
                    /\ t \notin outbox
                    /\ \A r \in Slots : slots[r].tok = t =>
                          slots[r].pc \notin {"fp_save", "fp_send", "fp_cleanup"}}

\* C1: a reset token is single-use.  Once resetPassword has succeeded with
\* a token, no user stores its digest any more, and a resetPassword request
\* that presents the token afterwards sends no response, signals an error,
\* issues no session token and writes nothing to the store.
ResetTokenSingleUse ==
    /\ \A t \in consumed : ~Stored(t)
    /\ (last.op = "resetPassword" /\ "reused" \in last.case) =>
          /\ last.sent = 0
          /\ last.errs # <<>>
          /\ last.tokenUid = NoUser
          /\ ~last.dbChanged

ResetTokenReused ==
    /\ last.op = "resetPassword"
    /\ "reused" \in last.case
    /\ last.sent = 0

\* C2: resetPassword with a token whose digest a user stores but whose
\* expiry is not later than now signals 'Invalid token', sends no response,
\* issues no session token and writes nothing to the store.
ExpiredTokenRejected ==
    (last.op = "resetPassword" /\ "expired" \in last.case) =>
        /\ last.sent = 0
        /\ Len(last.errs) >= 1
        /\ last.errs[1].message = "Invalid token"
        /\ last.tokenUid = NoUser
        /\ ~last.dbChanged

ExpiredTokenPresented ==
    /\ last.op = "resetPassword"
    /\ "expired" \in last.case
    /\ last.errs # <<>>

\* C3 as claimed: a stored reset token always has an expiry in the future.
ResetExpireInFuture ==
    \A u \in UserIds :
        db[u].passwordResetToken # Undefined =>
            /\ db[u].passwordResetExpire # Undefined
            /\ db[u].passwordResetExpire[1] > now

\* C3 as amended: a user's reset token and expiry are set together and
\* cleared together, and a stored expiry is at most one validity window
\* ahead of now; it may lie in the past.
ResetFieldsPaired ==
    \A u \in UserIds :
        /\ (db[u].passwordResetToken # Undefined) <=>
               (db[u].passwordResetExpire # Undefined)
        /\ db[u].passwordResetExpire # Undefined =>
               db[u].passwordResetExpire[1] <= now + ResetWindow

ExpiredTokenStored ==
    \E u \in UserIds :
        /\ db[u].passwordResetToken # Undefined
        /\ db[u].passwordResetExpire # Undefined
        /\ db[u].passwordResetExpire[1] <= now

\* C4: a forgotPassword request whose email is not delivered signals
\* 'Email could not be sent' with status 500 and nothing else; when it
\* completes, the user's reset token and expiry are both unset; and from
\* then on no user stores the digest of the token it generated.
FailedSendClearsToken ==
    /\ (last.op = "forgotPassword" /\ "sendfail" \in last.case) =>
          /\ last.sent = 0
          /\ Len(last.errs) = 1
          /\ last.errs[1].message = "Email could not be sent"
          /\ last.errs[1].statusCode = 500
          /\ last.tokAfter = Undefined
          /\ last.expAfter = Undefined
    /\ \A t \in Undelivered : ~Stored(t)

SendFailed ==
    /\ last.op = "forgotPassword"
    /\ "sendfail" \in last.case
    /\ last.tok \in Undelivered

\* C5: forgotPassword with an email no user has signals 'No user exists
\* with that email' with status 404, sends no response, writes nothing to
\* the store and delivers no email.
UnknownEmailWritesNothing ==
    (last.op = "forgotPassword" /\ "unknown" \in last.case) =>
        /\ last.sent = 0
        /\ Len(last.errs) = 1
        /\ last.errs[1].statusCode = 404
        /\ ~last.dbChanged
        /\ ~last.mailed

UnknownEmailAsked ==
    /\ last.op = "forgotPassword"
    /\ "unknown" \in last.case
    /\ \E u \in UserIds : db[u].exists

\* C6: login with a non-empty email and password answers a missing user
\* and a wrong password alike: status 401, 'Invalid credentials', no
\* response sent, no session token.
LoginFailuresAlike ==
    (last.op = "login" /\ last.case \cap {"nouser", "badpw"} # {}) =>
        Observable(last) =
            [sent |-> 0, status |-> 0, tokenUid |-> NoUser,
             errs |-> <<[name |-> "ErrorResponse",
                         message |-> "Invalid credentials",
                         statusCode |-> 401]>>]

LoginWrongPassword ==
    /\ last.op = "login"
    /\ "badpw" \in last.case

\* C7: updatePassword with a current password that is not the user's
\* signals 'Password is incorrect', sends no response, issues no session
\* token and writes nothing to the store.
WrongCurrentPasswordRejected ==
    (last.op = "updatePassword" /\ "wrongpw" \in last.case) =>
        /\ last.sent = 0
        /\ Len(last.errs) = 1
        /\ last.errs[1].message = "Password is incorrect"
        /\ last.tokenUid = NoUser
        /\ ~last.dbChanged

WrongCurrentPassword ==
    /\ last.op = "updatePassword"
    /\ "wrongpw" \in last.case

\* C8: login with a registered email and the password most recently set
\* for its user (by register, resetPassword or updatePassword) answers 200
\* with a session token for that user, and signals no error.
CorrectLoginSucceeds ==
    (last.op = "login" /\ "correct" \in last.case) =>
        /\ last.sent = 1
        /\ last.status = 200
        /\ last.errs = <<>>
        /\ last.uid \in UserIds
        /\ last.tokenUid = last.uid

\* a correct login while another user is registered
CorrectLoginBesideOtherUser ==
    /\ last.op = "login"
    /\ "correct" \in last.case
    /\ last.sent = 1
    /\ \A u \in UserIds : db[u].exists

\* C9: every handler invocation signals exactly one outcome: one response
\* sent or one error passed to next.
ExactlyOneOutcome ==
    last.op # "none" => last.sent + Len(last.errs) = 1

\* C10: the cleanup of a forgotPassword request whose email failed does not
\* clear a token another request wrote: when the user stored the digest of
\* a delivered token as the cleanup ran, the user still stores it once all
\* requests have completed.
CleanupKeepsDeliveredToken ==
    (/\ Quiet
     /\ last.op = "forgotPassword"
     /\ "sendfail" \in last.case
     /\ \E t \in outbox : last.cleared = Sha256(t)) =>
        db[last.uid].passwordResetToken = last.cleared

====
